---- MODULE Spec2Model ----
(***************************************************************************)
(* Model of reterm-of-the-king/src/main.rs: the winit event loop that      *)
(* drives a wgpu surface.  The program state is the State struct (size,    *)
(* config, the surface's current configuration), the loop's control flow,  *)
(* the redraw throttle, and the terminal's alternate-screen flag.          *)
(*                                                                         *)
(* The source contains no PTY session, no output pump, no chunk queue and  *)
(* no scrollback buffer: State holds GPU handles only (main.rs:17-24),     *)
(* State::update is empty (96-98) and the closure performs no read or      *)
(* write on any descriptor (149-200).                                      *)
(***************************************************************************)
EXTENDS Integers, Sequences, FiniteSets, TLC

\* ------------------------------------------------------------------ bounds

\* Largest window width/height the model draws sizes from.
MaxDim == 2

\* Largest value of last_redraw.elapsed() (in ms) the model tracks; the
\* clock stops advancing there.
MaxElapsed == 17

\* Duration::from_millis(16) of the redraw throttle.
RedrawIntervalMs == 16

\* ------------------------------------------------------------------ values

\* winit::dpi::PhysicalSize<u32>
Sizes == [width : 1..MaxDim, height : 1..MaxDim]

\* window.id() of the application's window, and the id of any other window.
WindowIds == {"own", "other"}

\* input.virtual_keycode: None, or Some(code).
KeyCodes == {"None", "Escape", "Return", "Tab", "Back",
             "Up", "Down", "Right", "Left", "C", "D", "L", "A"}

\* ElementState
ElementStates == {"Pressed", "Released"}

\* wgpu::SurfaceError, and "Ok" for a render that succeeds.
RenderResults == {"Ok", "Lost", "OutOfMemory", "Timeout", "Outdated"}

NoSize == [width |-> 0, height |-> 0]

\* One winit Event, as a record with the same fields for every kind.
Ev(kind, wid, st, key, ctrl, sz, res) ==
  [kind |-> kind, wid |-> wid, st |-> st, key |-> key, ctrl |-> ctrl,
   sz |-> sz, res |-> res]

NoEvent == Ev("NoEvent", "own", "Pressed", "None", FALSE, NoSize, "Ok")

\* WindowEvent::KeyboardInput.  ctrl is the Ctrl modifier, carried only with
\* the letters the model distinguishes; another window's key events are
\* drawn for Escape and Return only.
KeyboardInputEvents ==
  { Ev("KeyboardInput", "own", s, k, FALSE, NoSize, "Ok") :
      s \in ElementStates, k \in KeyCodes }
  \cup
  { Ev("KeyboardInput", "other", s, k, FALSE, NoSize, "Ok") :
      s \in ElementStates, k \in {"Escape", "Return"} }
  \cup
  { Ev("KeyboardInput", "own", s, k, TRUE, NoSize, "Ok") :
      s \in ElementStates, k \in {"C", "D", "L"} }

\* WindowEvent::ReceivedCharacter: printable text typed into the window.
ReceivedCharacterEvents ==
  { Ev("ReceivedCharacter", w, "Pressed", "A", FALSE, NoSize, "Ok") :
      w \in WindowIds }

CloseRequestedEvents ==
  { Ev("CloseRequested", w, "Pressed", "None", FALSE, NoSize, "Ok") :
      w \in WindowIds }

ResizedEvents ==
  { Ev("Resized", w, "Pressed", "None", FALSE, sz, "Ok") :
      w \in WindowIds, sz \in Sizes }

ScaleFactorChangedEvents ==
  { Ev("ScaleFactorChanged", w, "Pressed", "None", FALSE, sz, "Ok") :
      w \in WindowIds, sz \in Sizes }

\* Any other WindowEvent (Focused, CursorMoved, ...).
OtherWindowEvents ==
  { Ev("Focused", w, "Pressed", "None", FALSE, NoSize, "Ok") :
      w \in WindowIds }

WindowEvents ==
  KeyboardInputEvents \cup ReceivedCharacterEvents \cup CloseRequestedEvents
    \cup ResizedEvents \cup ScaleFactorChangedEvents \cup OtherWindowEvents

\* Event::RedrawRequested, with the result its render() call will have.
RedrawRequestedEvents ==
  { Ev("RedrawRequested", "own", "Pressed", "None", FALSE, NoSize, r) :
      r \in RenderResults }

MainEventsClearedEvent ==
  Ev("MainEventsCleared", "own", "Pressed", "None", FALSE, NoSize, "Ok")

\* Any other Event (NewEvents, DeviceEvent, RedrawEventsCleared, ...).
OtherEvent == Ev("Other", "own", "Pressed", "None", FALSE, NoSize, "Ok")

\* ------------------------------------------------------------------ state

VARIABLES
  pc,              \* "start", "setup", "running", "exited": where main is
  altScreen,       \* the terminal is in the alternate screen
  state,           \* the State struct: size, config, the surface's configuration
                   \* and the parity of the surface.configure calls made so far
  control_flow,    \* the event loop's ControlFlow: "Poll" or "Exit"
  since_redraw,    \* last_redraw.elapsed() in ms, tracked up to MaxElapsed
  redraw_pending,  \* window.request_redraw() was called and not yet served
  lastEvent,       \* the event the closure handled last (NoEvent before any)
  handled,         \* what State::input returned for lastEvent
  written          \* the bytes the closure wrote while handling lastEvent

vars == <<pc, altScreen, state, control_flow, since_redraw, redraw_pending,
          lastEvent, handled, written>>

\* State before State::new has run.
NoState ==
  [size |-> NoSize, config |-> NoSize, surface |-> NoSize, configures |-> 0]

\* State::new(window): size is the window's inner size, config takes its
\* width and height, and the surface is configured with config.
StateNew(size) ==
  [size |-> size, config |-> size, surface |-> size, configures |-> 1]

\* resize with a plausible slip: config.height is not updated, so the surface
\* is configured with the old height.
resize_stale_height(self, new_size) ==
  LET s1 == [self EXCEPT !.size = new_size]
      s2 == [s1 EXCEPT !.config.width = new_size.width]
  IN  [s2 EXCEPT !.surface = s2.config, !.configures = 1 - s2.configures]

\* State::resize(new_size): size, then config.width and config.height, then
\* surface.configure(&device, &config), which the configures parity records.
resize(self, new_size) ==
  LET s1 == [self EXCEPT !.size = new_size]
      s2 == [s1 EXCEPT !.config.width = new_size.width]
      s3 == [s2 EXCEPT !.config.height = new_size.height]
  IN  [s3 EXCEPT !.surface = s3.config, !.configures = 1 - s3.configures]

\* input with a plausible slip: the answer is taken from self as well as from
\* the event (any key counts as handled while the window is at full width).
input_stateful(self, event) ==
  [handled |-> (event.kind = "KeyboardInput"
                  /\ (event.key = "Escape" \/ self.size.width = MaxDim)),
   self    |-> self]

\* State::input(&mut self, event): true exactly for a KeyboardInput whose
\* virtual_keycode is Some(Escape), whatever its ElementState; self is left
\* as it was.  The result carries self because the method borrows it mutably.
input(self, event) ==
  [handled |-> (event.kind = "KeyboardInput" /\ event.key = "Escape"),
   self    |-> self]

\* State::update(): does nothing.
update(self) == self

\* The closure's inner match on a WindowEvent that State::input did not
\* handle: what it assigns to *control_flow and what becomes of State.
WindowEventMatch(self, event) ==
  IF \/ event.kind = "CloseRequested"
     \/ (event.kind = "KeyboardInput" /\ event.st = "Pressed"
           /\ event.key = "Escape")
    THEN [cf |-> "Exit", self |-> self]
  ELSE IF event.kind = "Resized"
    THEN [cf |-> "Poll", self |-> resize(self, event.sz)]
  ELSE IF event.kind = "ScaleFactorChanged"
    THEN [cf |-> "Poll", self |-> resize(self, event.sz)]
  ELSE [cf |-> "Poll", self |-> self]

\* The WindowEvent arm with a plausible slip: the window_id guard is missing,
\* so another window's events are handled like the application's own.
WindowEventArm_any_window(self, event) ==
  LET r == input(self, event)
  IN  IF r.handled
        THEN [cf |-> "Poll", self |-> r.self, handled |-> TRUE]
        ELSE LET m == WindowEventMatch(r.self, event)
             IN  [cf |-> m.cf, self |-> m.self, handled |-> FALSE]

\* The Event::WindowEvent arm, guard included: an event of another window
\* falls through to the closure's final `_ => {}`.
WindowEventArm(self, event) ==
  IF event.wid # "own"
    THEN [cf |-> "Poll", self |-> self, handled |-> FALSE]
  ELSE LET r == input(self, event)
       IN  IF r.handled
             THEN [cf |-> "Poll", self |-> r.self, handled |-> TRUE]
             ELSE LET m == WindowEventMatch(r.self, event)
                  IN  [cf |-> m.cf, self |-> m.self, handled |-> FALSE]

\* The RedrawRequested arm with a plausible slip: every render error is
\* treated as fatal and the lost surface is not reconfigured.
RedrawRequestedArm_all_fatal(self, event) ==
  LET s == update(self)
  IN  IF event.res = "Ok" THEN [cf |-> "Poll", self |-> s]
      ELSE [cf |-> "Exit", self |-> s]

\* The Event::RedrawRequested arm: update(), render(), and the handling of
\* render's error.  event.res is what render() returns.
RedrawRequestedArm(self, event) ==
  LET s == update(self)
  IN  IF event.res = "Lost" THEN [cf |-> "Poll", self |-> resize(s, s.size)]
      ELSE IF event.res = "OutOfMemory" THEN [cf |-> "Exit", self |-> s]
      ELSE [cf |-> "Poll", self |-> s]

\* What the event loop keeps of the closure's *control_flow: once Exit has
\* been set, a later assignment of Poll does not undo it.
KeepExit(old, new) == IF old = "Exit" THEN "Exit" ELSE new

\* The bytes the closure writes to a descriptor while handling an event: it
\* contains no write call, so none, for every event.
BytesWritten(event) == << >>

\* ------------------------------------------------------------------ actions

Init ==
  /\ pc = "start"
  /\ altScreen = FALSE
  /\ state = NoState
  /\ control_flow = "Poll"
  /\ since_redraw = 0
  /\ redraw_pending = FALSE
  /\ lastEvent = NoEvent
  /\ handled = FALSE
  /\ written = << >>

\* execute!(stdout, EnterAlternateScreen)?
EnterAlternateScreen ==
  /\ pc = "start"
  /\ \E ok \in BOOLEAN :
       IF ok THEN altScreen' = TRUE /\ pc' = "setup"
             ELSE altScreen' = altScreen /\ pc' = "exited"
  /\ UNCHANGED <<state, control_flow, since_redraw, redraw_pending,
                 lastEvent, handled, written>>

\* EventLoop::new, WindowBuilder::build, State::new, Instant::now
Setup ==
  /\ pc = "setup"
  /\ \E size \in Sizes : state' = StateNew(size)
  /\ since_redraw' = 0
  /\ pc' = "running"
  /\ UNCHANGED <<altScreen, control_flow, redraw_pending, lastEvent,
                 handled, written>>

\* build(..).unwrap() or an expect of State::new panics.
SetupPanic ==
  /\ pc = "setup"
  /\ pc' = "exited"
  /\ UNCHANGED <<altScreen, state, control_flow, since_redraw,
                 redraw_pending, lastEvent, handled, written>>

\* Time passes between two events.
Tick ==
  /\ pc = "running"
  /\ since_redraw < MaxElapsed
  /\ since_redraw' = since_redraw + 1
  /\ UNCHANGED <<pc, altScreen, state, control_flow, redraw_pending,
                 lastEvent, handled, written>>

\* The closure called with the Event::WindowEvent `event`.
HandleWindowEvent(event) ==
  /\ pc = "running"
  /\ LET a == WindowEventArm(state, event)
     IN  /\ state' = a.self
         /\ control_flow' = KeepExit(control_flow, a.cf)
         /\ handled' = a.handled
         /\ lastEvent' = event
         /\ written' = BytesWritten(event)
  /\ UNCHANGED <<pc, altScreen, since_redraw, redraw_pending>>

OnWindowEvent == \E event \in WindowEvents : HandleWindowEvent(event)

\* The closure called with Event::RedrawRequested.
OnRedrawRequested ==
  /\ pc = "running"
  /\ \E event \in RedrawRequestedEvents :
       LET a == RedrawRequestedArm(state, event)
       IN  /\ state' = a.self
           /\ control_flow' = KeepExit(control_flow, a.cf)
           /\ lastEvent' = event
           /\ written' = BytesWritten(event)
  /\ handled' = FALSE
  /\ redraw_pending' = FALSE
  /\ UNCHANGED <<pc, altScreen, since_redraw>>

\* MainEventsCleared with a plausible slip: the elapsed-time test is missing
\* and every call requests a redraw.
OnMainEventsCleared_unthrottled ==
  /\ pc = "running"
  /\ redraw_pending' = TRUE
  /\ since_redraw' = 0
  /\ control_flow' = KeepExit(control_flow, "Poll")
  /\ lastEvent' = MainEventsClearedEvent
  /\ handled' = FALSE
  /\ written' = BytesWritten(MainEventsClearedEvent)
  /\ UNCHANGED <<pc, altScreen, state>>

\* The closure called with Event::MainEventsCleared.
OnMainEventsCleared ==
  /\ pc = "running"
  /\ IF since_redraw >= RedrawIntervalMs
       THEN redraw_pending' = TRUE /\ since_redraw' = 0
       ELSE UNCHANGED <<redraw_pending, since_redraw>>
  /\ control_flow' = KeepExit(control_flow, "Poll")
  /\ lastEvent' = MainEventsClearedEvent
  /\ handled' = FALSE
  /\ written' = BytesWritten(MainEventsClearedEvent)
  /\ UNCHANGED <<pc, altScreen, state>>

\* The closure called with any other Event.
OnOtherEvent ==
  /\ pc = "running"
  /\ control_flow' = KeepExit(control_flow, "Poll")
  /\ lastEvent' = OtherEvent
  /\ handled' = FALSE
  /\ written' = BytesWritten(OtherEvent)
  /\ UNCHANGED <<pc, altScreen, state, since_redraw, redraw_pending>>

\* The loop ends after ControlFlow::Exit: event_loop.run never returns, the
\* process exits and the lines after the call are not run.
LoopDestroyed ==
  /\ pc = "running"
  /\ control_flow = "Exit"
  /\ pc' = "exited"
  /\ UNCHANGED <<altScreen, state, control_flow, since_redraw,
                 redraw_pending, lastEvent, handled, written>>

Next ==
  \/ EnterAlternateScreen
  \/ Setup
  \/ SetupPanic
  \/ Tick
  \/ OnWindowEvent
  \/ OnRedrawRequested
  \/ OnMainEventsCleared
  \/ OnOtherEvent
  \/ LoopDestroyed

Spec == Init /\ [][Next]_vars

\* ------------------------------------------------------------------ input

\* The events of the application's window that carry user input: key
\* presses and releases, and typed characters.
InputEvents ==
  { e \in KeyboardInputEvents \cup ReceivedCharacterEvents : e.wid = "own" }

\* A State the loop can start from, against which outputs are compared.
RefState == StateNew([width |-> 1, height |-> 1])

\* The encoder's mapping table as the specification gives it.
MappingTable(e) ==
  IF e.kind = "ReceivedCharacter" THEN <<97>>
  ELSE IF e.kind # "KeyboardInput" \/ e.st # "Pressed" THEN << >>
  ELSE IF e.ctrl /\ e.key = "C" THEN <<3>>
  ELSE IF e.ctrl /\ e.key = "D" THEN <<4>>
  ELSE IF e.ctrl /\ e.key = "L" THEN <<12>>
  ELSE IF e.key = "Return" THEN <<10>>
  ELSE IF e.key = "Tab" THEN <<9>>
  ELSE IF e.key = "Back" THEN <<127>>
  ELSE IF e.key = "Up" THEN <<27, 91, 65>>
  ELSE IF e.key = "Down" THEN <<27, 91, 66>>
  ELSE IF e.key = "Right" THEN <<27, 91, 67>>
  ELSE IF e.key = "Left" THEN <<27, 91, 68>>
  ELSE << >>

\* C8: after the closure has handled an input event of the application's
\* window, the bytes it produced are those of the mapping table (Enter 0x0A,
\* Tab 0x09, Backspace 0x7F, arrows ESC [ A/B/C/D, Ctrl+C/D/L 0x03/0x04/0x0C,
\* text verbatim, anything else nothing).
C8_MappingTable ==
  (pc = "running" /\ lastEvent \in InputEvents)
    => written = MappingTable(lastEvent)

\* C9 (state part): in every state the loop reaches, what State::input
\* answers for an input event, and the bytes produced for it, are those it
\* gives from the reference state, and it hands self back as it was; the
\* output recorded for the event handled last is that same output.
C9_SameOutput ==
  pc = "running" =>
    /\ \A e \in InputEvents :
         /\ input(state, e).handled = input(RefState, e).handled
         /\ input(state, e).self = state
    /\ lastEvent \in InputEvents =>
         /\ handled = input(RefState, lastEvent).handled
         /\ written = BytesWritten(lastEvent)

\* C9 (step part): a step in which the closure handles an input event
\* changes nothing but the record of that event and its output.
C9_NoSideEffect ==
  (lastEvent' \in InputEvents /\ HandleWindowEvent(lastEvent'))
    => UNCHANGED <<pc, altScreen, state, control_flow, since_redraw,
                   redraw_pending>>

C12_TerminalRestored ==
  (pc = "exited" /\ control_flow = "Exit") => ~altScreen

\* The Escape key pressed in the application's window.
EscapePressed ==
  Ev("KeyboardInput", "own", "Pressed", "Escape", FALSE, NoSize, "Ok")

\* C14: after the closure has handled an Escape key press of the
\* application's window, the control flow is Exit.
C14_EscapeExits ==
  (pc = "running" /\ lastEvent = EscapePressed) => control_flow = "Exit"

\* ------------------------------------------------------------------ redraw

\* C13 (step): a redraw is requested only by a MainEventsCleared call at
\* which at least RedrawIntervalMs have passed since last_redraw, which it
\* then resets; below the interval that call requests nothing; and no other
\* call of the closure touches last_redraw (only the passing of time changes
\* its elapsed time).
C13_ThrottleStep ==
  /\ (redraw_pending' /\ ~redraw_pending) =>
       /\ lastEvent' = MainEventsClearedEvent
       /\ since_redraw >= RedrawIntervalMs
       /\ since_redraw' = 0
  /\ (since_redraw' # since_redraw) =>
       \/ since_redraw' = since_redraw + 1 /\ UNCHANGED lastEvent
       \/ /\ lastEvent' = MainEventsClearedEvent
          /\ since_redraw >= RedrawIntervalMs
          /\ since_redraw' = 0
          /\ redraw_pending'
  /\ (lastEvent' = MainEventsClearedEvent /\ OnMainEventsCleared) =>
       IF since_redraw >= RedrawIntervalMs
         THEN redraw_pending' /\ since_redraw' = 0
         ELSE UNCHANGED <<redraw_pending, since_redraw>>
  /\ (\/ lastEvent' \in WindowEvents /\ HandleWindowEvent(lastEvent')
      \/ lastEvent'.kind = "RedrawRequested" /\ OnRedrawRequested
      \/ lastEvent' = OtherEvent /\ OnOtherEvent) =>
       since_redraw' = since_redraw

\* C13: redraws are throttled to one per RedrawIntervalMs.
C13_Throttled == [][C13_ThrottleStep]_vars

\* C13 witness: a MainEventsCleared call has just requested a redraw and
\* reset last_redraw.
C13_Witness ==
  /\ pc = "running"
  /\ lastEvent = MainEventsClearedEvent
  /\ redraw_pending
  /\ since_redraw = 0

\* ------------------------------------------------------------------ windows

\* C15 (step): handling CloseRequested of the application's window sets the
\* control flow to Exit; handling a WindowEvent of any other window assigns
\* Poll, leaves the loop's control flow as it was and leaves State alone.
C15_WindowStep ==
  (lastEvent' \in WindowEvents /\ HandleWindowEvent(lastEvent')) =>
    /\ (lastEvent'.kind = "CloseRequested" /\ lastEvent'.wid = "own") =>
         control_flow' = "Exit"
    /\ lastEvent'.wid # "own" =>
         /\ WindowEventArm(state, lastEvent').cf = "Poll"
         /\ control_flow' = control_flow
         /\ state' = state

\* C15: CloseRequested of the own window exits; other windows' events change
\* neither the control flow nor State.
C15_OwnWindowOnly == [][C15_WindowStep]_vars

\* C15 witness: another window's Resized event, carrying a size that differs
\* from State's, has been handled while the loop polls.
C15_Witness ==
  /\ pc = "running"
  /\ lastEvent \in ResizedEvents
  /\ lastEvent.wid = "other"
  /\ lastEvent.sz # state.size
  /\ control_flow = "Poll"

\* ------------------------------------------------------------------ resize

\* The Resized and ScaleFactorChanged events of the application's window.
ResizeEvents ==
  { e \in ResizedEvents \cup ScaleFactorChangedEvents : e.wid = "own" }

\* C16 (state): config's width and height are size's, and the surface is
\* configured with them.
C16_ConfigIsSize ==
  /\ state.config.width = state.size.width
  /\ state.config.height = state.size.height
  /\ state.surface = state.config

\* C16 (step): a Resized or ScaleFactorChanged event of the own window sets
\* size, config and the surface's configuration to its size, with one
\* surface.configure call; nothing but State::new and these events changes
\* size or config.
C16_ResizeStep ==
  /\ (lastEvent' \in ResizeEvents /\ HandleWindowEvent(lastEvent')) =>
       /\ state'.size = lastEvent'.sz
       /\ state'.config = lastEvent'.sz
       /\ state'.surface = lastEvent'.sz
       /\ state'.configures # state.configures
  /\ (state'.size # state.size \/ state'.config # state.config) =>
       \/ pc = "setup" /\ pc' = "running"
       \/ lastEvent' \in ResizeEvents /\ HandleWindowEvent(lastEvent')

\* C16: config always matches size, and only State::new and resize set them.
C16_SizeConfig == [] C16_ConfigIsSize /\ [][C16_ResizeStep]_vars

\* C16 witness: a Resized event of the own window has been handled and State
\* holds its (non-square) size.
C16_Witness ==
  /\ pc = "running"
  /\ lastEvent \in ResizedEvents
  /\ lastEvent.wid = "own"
  /\ state.size = lastEvent.sz
  /\ state.size.width # state.size.height

\* ------------------------------------------------------------------ render

\* C17 (step): on RedrawRequested, SurfaceError::Lost reconfigures the
\* surface with the current size and leaves size and the control flow alone;
\* OutOfMemory sets the control flow to Exit; any other error changes neither
\* State nor the control flow.
C17_RenderErrorStep ==
  (lastEvent'.kind = "RedrawRequested" /\ OnRedrawRequested) =>
    /\ lastEvent'.res = "Lost" =>
         /\ state'.configures # state.configures
         /\ state'.surface = state.size
         /\ state'.size = state.size
         /\ state'.config = state.config
         /\ RedrawRequestedArm(state, lastEvent').cf = "Poll"
         /\ control_flow' = control_flow
    /\ lastEvent'.res = "OutOfMemory" =>
         /\ control_flow' = "Exit"
         /\ state' = state
    /\ lastEvent'.res \in {"Timeout", "Outdated"} =>
         /\ state' = state
         /\ control_flow' = control_flow

\* C17: the handling of render errors.
C17_RenderErrors == [][C17_RenderErrorStep]_vars

\* C17 witness: a RedrawRequested whose render lost the surface has been
\* handled and the loop goes on polling.
C17_Witness ==
  /\ pc = "running"
  /\ lastEvent \in RedrawRequestedEvents
  /\ lastEvent.res = "Lost"
  /\ control_flow = "Poll"

====
